---- MODULE Spec2Model ----
(***************************************************************************)
(* Model of the Azure storage HTTP client (storage/client.go):            *)
(* DefaultSender.Send (the retry loop), Client.exec,                       *)
(* Client.execInternalJSONCommon / execInternalJSON and                    *)
(* Client.execBatchOperationJSON with the error decoders.                  *)
(*                                                                         *)
(* Every goroutine p performs one call.  The transport (HTTPClient.Do),    *)
(* the request preparation and the caller's cancellation channel are the   *)
(* environment: their outcomes are chosen nondeterministically.            *)
(***************************************************************************)
EXTENDS Integers, Sequences, FiniteSets, TLC

\* ---------------------------------------------------------------- bounds
MaxRetryAttempts == 2

\* ------------------------------------------------------------- constants
defaultRetryAttempts == 5

defaultValidStatusCodes == {408, 500, 502, 503, 504}

StatusNoContent == 204

Procs == {"g1", "g2"}

\* the goroutine of the sequential specification
Main == "g1"

\* values DefaultSender.RetryAttempts takes in the model (an exported field)
RetryAttemptsSet == (0 - 1) .. MaxRetryAttempts

\* status codes the transport delivers in the model
StatusCodes == {200, 399, 400, 404, 503, 505, 506}

\* resp.Status: the status line as the server sent it
StatusLine(code) ==
    CASE code = 200 -> "200 OK"
      [] code = 204 -> "204 No Content"
      [] code = 399 -> "399 "
      [] code = 400 -> "400 Bad Request"
      [] code = 404 -> "404 Not Found"
      [] code = 503 -> "503 Service Unavailable"
      [] code = 505 -> "505 HTTP Version Not Supported"
      [] code = 506 -> "506 Variant Also Negotiates"
      [] OTHER -> "unknown"

\* values of the Content-Type response header; "" is an absent header
MultipartType == "multipart/mixed; boundary=batchresponse"
BadMediaType == "multipart/mixed; boundary"
ContentTypes ==
    {"", "application/xml", "application/json",
     "application/xml; charset=utf-8", MultipartType, BadMediaType}

\* the response headers exec reads: Content-Type and the debug headers
\* x-ms-request-id, Date and x-ms-version ("" is an absent header)
Header(ct, requestID, date, version) ==
    [ContentType |-> ct, RequestID |-> requestID, Date |-> date,
     Version |-> version]

Headers ==
    { Header(ct, "req-1", "Tue, 03 Nov 2026", "2016-05-31") : ct \in ContentTypes }
        \cup { Header("", "", "", "") }

NoHeaders == Header("", "", "", "")

\* ---------------------------------------------------------------- errors
\* An error value.  type "nil" is the nil error; the remaining fields are
\* those of AzureStorageServiceError and are blank for every other type.
MkErr(t) ==
    [type |-> t, StatusCode |-> 0, Code |-> "", Message |-> <<>>, Lang |-> "",
     RequestID |-> "", Date |-> "", APIVersion |-> ""]

Nil == MkErr("nil")

\* ------------------------------------------------------ response bodies
\* A document: its text, whether the text is well-formed XML or JSON, and
\* the Code / Message / Lang it carries.
Doc(raw, isXML, isJSON, code, message, lang) ==
    [raw |-> raw, xml |-> isXML, json |-> isJSON, Code |-> code,
     Message |-> message, Lang |-> lang]

EmptyDoc == Doc("", FALSE, FALSE, "", "", "")

XMLDoc ==
    Doc("<Error><Code>ResourceNotFound</Code><Message>gone</Message></Error>",
        TRUE, FALSE, "ResourceNotFound", "gone", "")

XMLDoc409 ==
    Doc("<Error><Code>ContainerAlreadyExists</Code><Message>exists</Message></Error>",
        TRUE, FALSE, "ContainerAlreadyExists", "exists", "")

JSONDoc ==
    Doc("{odata.error:{code:EntityAlreadyExists,message:{lang:en-us,value:x}}}",
        FALSE, TRUE, "EntityAlreadyExists", "x", "en-us")

JunkDoc == Doc("<Error><Code>Trunc", FALSE, FALSE, "", "", "")

\* the multipart structure of a body that is not a batch response
NoBatch ==
    [outer |-> "", partType |-> "", inner |-> "", http |-> FALSE,
     status |-> 0, body |-> EmptyDoc]

\* the content of a response body: a document, or a multipart batch
\* response (outer boundary, Content-Type of the batch part, boundary of the
\* changeset inside it, and the embedded HTTP response)
Content(doc, batch) ==
    [raw |-> doc.raw, xml |-> doc.xml, json |-> doc.json, Code |-> doc.Code,
     Message |-> doc.Message, Lang |-> doc.Lang, batch |-> batch]

Unread == Content(Doc("", FALSE, FALSE, "unread", "", ""), NoBatch)

EmptyBody == Content(EmptyDoc, NoBatch)
XMLBody == Content(XMLDoc, NoBatch)
XMLBody409 == Content(XMLDoc409, NoBatch)
JSONBody == Content(JSONDoc, NoBatch)
JunkBody == Content(JunkDoc, NoBatch)

\* Content-Type of a batch part that declares the changeset boundary
ChangesetType == "multipart/mixed; boundary=changesetresponse"

\* a two-level multipart batch response
Batch(outer, partType, inner, http, status, doc) ==
    Content(Doc("--batchresponse", FALSE, FALSE, "", "", ""),
            [outer |-> outer, partType |-> partType, inner |-> inner,
             http |-> http, status |-> status, body |-> doc])

BatchBodies ==
    { Batch("batchresponse", ChangesetType, "changesetresponse", TRUE, 204, EmptyDoc),
      Batch("batchresponse", ChangesetType, "changesetresponse", TRUE, 400, JSONDoc),
      Batch("batchresponse", ChangesetType, "changesetresponse", TRUE, 400, JunkDoc),
      Batch("batchresponse", ChangesetType, "changesetresponse", TRUE, 400, EmptyDoc),
      Batch("otherboundary", ChangesetType, "changesetresponse", TRUE, 204, EmptyDoc),
      Batch("batchresponse", "", "changesetresponse", TRUE, 204, EmptyDoc),
      Batch("batchresponse", ChangesetType, "otherboundary", TRUE, 204, EmptyDoc),
      Batch("batchresponse", ChangesetType, "changesetresponse", FALSE, 0, EmptyDoc) }

BodyContents ==
    {EmptyBody, XMLBody, XMLBody409, JSONBody, JunkBody} \cup BatchBodies

VARIABLES
    ds,          \* the DefaultSender shared by every copy of the Client
    pc,          \* position of each goroutine in its call
    kind,        \* the function each goroutine called
    attempts,    \* Send's loop variable
    tmp,         \* register of the non-atomic ds.attempts++
    bodies,      \* every response the transport delivered, with its body state
    resp,        \* Send's resp: an index into bodies, 0 is nil
    err,         \* the err variable of the running function
    doCalls,     \* number of calls of HTTPClient.Do
    sendCalls,   \* number of calls of Sender.Send
    waits,       \* the backoff waits performed, in order
    cancelled,   \* req.Cancel is closed
    decoders,    \* the decoders invoked, in order
    result,      \* what the call returned
    parser,      \* the steps the batch parser took, in order
    client,      \* the Client GetAccountSASToken is called on
    options,     \* the AccountSASTokenOptions of the call
    sasPc,       \* position of the GetAccountSASToken call
    stringToSign,\* the string GetAccountSASToken signed
    sasParams,   \* the url.Values GetAccountSASToken returned
    sasErr,      \* the error GetAccountSASToken returned
    invocation,  \* a constructor or checkRespCode call: function and arguments
    returned     \* what that call returned

\* the state of the HTTP calls
httpVars == <<ds, pc, kind, attempts, tmp, bodies, resp, err, doCalls,
              sendCalls, waits, cancelled, decoders, result, parser>>

\* the state of the account-SAS generation
sasVars == <<client, options, sasPc, stringToSign, sasParams, sasErr>>

\* the state of a constructor or checkRespCode call
pureVars == <<invocation, returned>>

vars == <<httpVars, sasVars, pureVars>>

\* ------------------------------------------------------------ the Sender
\* a response as HTTPClient.Do returns it: status, headers and an open,
\* unread body (its content is fixed when it is read off the connection)
NewResponse(status, header) ==
    [StatusCode |-> status, Status |-> StatusLine(status), Header |-> header,
     reads |-> 0, closes |-> 0, failed |-> FALSE, content |-> Unread]

Responses == { NewResponse(s, h) : s \in StatusCodes, h \in Headers }

\* a reduced transport for the concurrent specification
PlainResponses == { NewResponse(s, NoHeaders) : s \in {200, 503} }

\* autorest.ResponseHasStatusCode(resp, codes...)
ResponseHasStatusCode(r, codes) == r.StatusCode \in codes

\* Send returns (resp, err) to its caller
SendReturns(p, r, e) ==
    /\ resp' = [resp EXCEPT ![p] = r]
    /\ err' = [err EXCEPT ![p] = e]
    /\ pc' = [pc EXCEPT ![p] = "sent"]


\* SendLoop with the loop test attempts <= ds.RetryAttempts
SendLoopOffByOne(p) ==
    /\ pc[p] = "send"
    /\ pc' = [pc EXCEPT ![p] =
                IF attempts[p] <= ds.RetryAttempts THEN "prepare" ELSE "incr"]
    /\ UNCHANGED <<ds, kind, attempts, tmp, bodies, resp, err, doCalls,
                   sendCalls, waits, cancelled, decoders, result>>
    /\ UNCHANGED <<parser, sasVars, pureVars>>

\* line 109: for attempts := 0; attempts < ds.RetryAttempts
SendLoop(p) ==
    /\ pc[p] = "send"
    /\ pc' = [pc EXCEPT ![p] =
                IF attempts[p] < ds.RetryAttempts THEN "prepare" ELSE "incr"]
    /\ UNCHANGED <<ds, kind, attempts, tmp, bodies, resp, err, doCalls,
                   sendCalls, waits, cancelled, decoders, result>>
    /\ UNCHANGED <<parser, sasVars, pureVars>>

\* lines 110-113: rr.Prepare() succeeded
PrepareOk(p) ==
    /\ pc[p] = "prepare"
    /\ pc' = [pc EXCEPT ![p] = "do"]
    /\ UNCHANGED <<ds, kind, attempts, tmp, bodies, resp, err, doCalls,
                   sendCalls, waits, cancelled, decoders, result>>
    /\ UNCHANGED <<parser, sasVars, pureVars>>

\* lines 110-113: rr.Prepare() failed, return resp, err
PrepareFails(p) ==
    /\ pc[p] = "prepare"
    /\ SendReturns(p, resp[p], MkErr("prepare"))
    /\ UNCHANGED <<ds, kind, attempts, tmp, bodies, doCalls, sendCalls,
                   waits, cancelled, decoders, result>>
    /\ UNCHANGED <<parser, sasVars, pureVars>>

\* line 114: c.HTTPClient.Do is called and the request is in flight
DoCall(p) ==
    /\ pc[p] = "do"
    /\ doCalls' = [doCalls EXCEPT ![p] = @ + 1]
    /\ pc' = [pc EXCEPT ![p] = "inflight"]
    /\ UNCHANGED <<ds, kind, attempts, tmp, bodies, resp, err, sendCalls,
                   waits, cancelled, decoders, result>>
    /\ UNCHANGED <<parser, sasVars, pureVars>>

\* the status test of line 115, after Do returned r without error
AfterResponse(r) ==
    IF ResponseHasStatusCode(r, defaultValidStatusCodes) THEN "backoff"
    ELSE "sent"

\* lines 114-117: Do returned a response
DoResponse(p, R) ==
    /\ pc[p] = "inflight"
    /\ \E r \in R :
          /\ bodies' = [bodies EXCEPT ![p] = Append(@, r)]
          /\ resp' = [resp EXCEPT ![p] = Len(bodies[p]) + 1]
          /\ err' = [err EXCEPT ![p] = Nil]
          /\ pc' = [pc EXCEPT ![p] = AfterResponse(r)]
    /\ UNCHANGED <<ds, kind, attempts, tmp, doCalls, sendCalls, waits,
                   cancelled, decoders, result>>
    /\ UNCHANGED <<parser, sasVars, pureVars>>


\* DoError that treats a transport error as retriable
DoErrorRetries(p) ==
    /\ pc[p] = "inflight"
    /\ resp' = [resp EXCEPT ![p] = 0]
    /\ err' = [err EXCEPT ![p] = MkErr("transport")]
    /\ pc' = [pc EXCEPT ![p] = "backoff"]
    /\ UNCHANGED <<ds, kind, attempts, tmp, bodies, doCalls, sendCalls,
                   waits, cancelled, decoders, result>>
    /\ UNCHANGED <<parser, sasVars, pureVars>>

\* lines 114-117: Do failed (a nil response and the transport's error;
\* the error of a request whose Cancel channel is closed is "canceled")
DoError(p) ==
    /\ pc[p] = "inflight"
    /\ SendReturns(p, 0, MkErr(IF cancelled[p] THEN "canceled" ELSE "transport"))
    /\ UNCHANGED <<ds, kind, attempts, tmp, bodies, doCalls, sendCalls,
                   waits, cancelled, decoders, result>>
    /\ UNCHANGED <<parser, sasVars, pureVars>>

\* what follows line 118, whose result Send ignores
AfterBackoff == "store"

\* line 118: autorest.DelayForBackoff, the timer fired
BackoffElapsed(p) ==
    /\ pc[p] = "backoff"
    /\ waits' = [waits EXCEPT ![p] =
                    Append(@, [attempt |-> attempts[p], aborted |-> FALSE])]
    /\ pc' = [pc EXCEPT ![p] = AfterBackoff]
    /\ UNCHANGED <<ds, kind, attempts, tmp, bodies, resp, err, doCalls,
                   sendCalls, cancelled, decoders, result>>
    /\ UNCHANGED <<parser, sasVars, pureVars>>

\* line 118: autorest.DelayForBackoff, req.Cancel ended the wait
BackoffCancelled(p) ==
    /\ pc[p] = "backoff"
    /\ cancelled[p]
    /\ waits' = [waits EXCEPT ![p] =
                    Append(@, [attempt |-> attempts[p], aborted |-> TRUE])]
    /\ pc' = [pc EXCEPT ![p] = AfterBackoff]
    /\ UNCHANGED <<ds, kind, attempts, tmp, bodies, resp, err, doCalls,
                   sendCalls, cancelled, decoders, result>>
    /\ UNCHANGED <<parser, sasVars, pureVars>>

\* line 119 and the loop's attempts++
StoreAttempts(p) ==
    /\ pc[p] = "store"
    /\ ds' = [ds EXCEPT !.attempts = attempts[p]]
    /\ attempts' = [attempts EXCEPT ![p] = @ + 1]
    /\ pc' = [pc EXCEPT ![p] = "send"]
    /\ UNCHANGED <<kind, tmp, bodies, resp, err, doCalls, sendCalls, waits,
                   cancelled, decoders, result>>
    /\ UNCHANGED <<parser, sasVars, pureVars>>

\* line 121, ds.attempts++: the load
IncrLoad(p) ==
    /\ pc[p] = "incr"
    /\ tmp' = [tmp EXCEPT ![p] = ds.attempts]
    /\ pc' = [pc EXCEPT ![p] = "incr_store"]
    /\ UNCHANGED <<ds, kind, attempts, bodies, resp, err, doCalls, sendCalls,
                   waits, cancelled, decoders, result>>
    /\ UNCHANGED <<parser, sasVars, pureVars>>


\* IncrStore that reports the exhausted budget as an error
IncrStoreExhausted(p) ==
    /\ pc[p] = "incr_store"
    /\ ds' = [ds EXCEPT !.attempts = tmp[p] + 1]
    /\ err' = [err EXCEPT ![p] = MkErr("retries exhausted")]
    /\ pc' = [pc EXCEPT ![p] = "sent"]
    /\ UNCHANGED <<kind, attempts, tmp, bodies, resp, doCalls, sendCalls,
                   waits, cancelled, decoders, result>>
    /\ UNCHANGED <<parser, sasVars, pureVars>>

\* lines 121-122, ds.attempts++: the store, then return resp, err
IncrStore(p) ==
    /\ pc[p] = "incr_store"
    /\ ds' = [ds EXCEPT !.attempts = tmp[p] + 1]
    /\ pc' = [pc EXCEPT ![p] = "sent"]
    /\ UNCHANGED <<kind, attempts, tmp, bodies, resp, err, doCalls, sendCalls,
                   waits, cancelled, decoders, result>>
    /\ UNCHANGED <<parser, sasVars, pureVars>>

\* the caller closes req.Cancel while the call runs
Cancel(p) ==
    /\ pc[p] \in {"send", "prepare", "do", "inflight", "backoff", "store"}
    /\ ~cancelled[p]
    /\ cancelled' = [cancelled EXCEPT ![p] = TRUE]
    /\ UNCHANGED <<ds, pc, kind, attempts, tmp, bodies, resp, err, doCalls,
                   sendCalls, waits, decoders, result>>
    /\ UNCHANGED <<parser, sasVars, pureVars>>

\* DefaultSender.Send, one step of goroutine p
Send(p, R) ==
    \/ SendLoop(p)
    \/ PrepareOk(p)
    \/ PrepareFails(p)
    \/ DoCall(p)
    \/ DoResponse(p, R)
    \/ DoError(p)
    \/ BackoffElapsed(p)
    \/ StoreAttempts(p)
    \/ IncrLoad(p)
    \/ IncrStore(p)


\* InFailureRange with an exclusive lower limit
InFailureRangeExclusive(code) == code > 400 /\ code <= 505

\* ------------------------------------------------------- the classifier
InFailureRange(code) == code >= 400 /\ code <= 505

NoBodyMessage == "no response body was available for error status code"
UnmarshalMessage == "Response body could no be unmarshaled: "

NoOData == [Code |-> "", Message |-> "", Lang |-> ""]

\* the value a call returns: (nil, err) or (&storageResponse{..}, err)
NoResult ==
    [returned |-> FALSE, isNil |-> TRUE, statusCode |-> 0,
     headers |-> NoHeaders, body |-> "none", odata |-> NoOData, err |-> Nil]

ReturnNil(e) == [NoResult EXCEPT !.returned = TRUE, !.err = e]

ReturnResponse(code, headers, body, odata, e) ==
    [returned |-> TRUE, isNil |-> FALSE, statusCode |-> code,
     headers |-> headers, body |-> body, odata |-> odata, err |-> e]

\* readAndCloseBody on body b: c is what the connection delivers, fails
\* tells whether the read ends in an error other than io.EOF.  A body
\* that was closed before cannot be read.
readAndCloseBody(b, c, fails) ==
    [body |-> [b EXCEPT !.reads = @ + 1, !.closes = @ + 1,
                        !.failed = IF b.closes = 0 /\ b.reads = 0 THEN fails ELSE @,
                        !.content = IF b.closes = 0 /\ b.reads = 0 THEN c ELSE @],
     out |-> IF b.closes > 0 \/ b.reads > 0 \/ fails THEN EmptyBody ELSE c,
     err |-> IF b.closes > 0 THEN MkErr("read on closed body")
             ELSE IF fails THEN MkErr("read") ELSE Nil]

\* getDebugHeaders
getDebugHeaders(h) ==
    [requestID |-> h.RequestID, date |-> h.Date, version |-> h.Version]


\* serviceErrFromStatusCode that leaves Code blank
serviceErrFromStatusCodeNoCode(code, status, requestID, date, version) ==
    [MkErr("AzureStorageServiceError") EXCEPT
        !.StatusCode = code, !.RequestID = requestID,
        !.Date = date, !.APIVersion = version, !.Message = <<NoBodyMessage>>]

\* serviceErrFromStatusCode
serviceErrFromStatusCode(code, status, requestID, date, version) ==
    [MkErr("AzureStorageServiceError") EXCEPT
        !.StatusCode = code, !.Code = status, !.RequestID = requestID,
        !.Date = date, !.APIVersion = version, !.Message = <<NoBodyMessage>>]

\* xml.Unmarshal(body, storageErr)
xmlUnmarshal(body, storageErr) ==
    IF body.xml
    THEN [v |-> [storageErr EXCEPT !.Code = body.Code,
                                   !.Message = <<body.Message>>],
          err |-> Nil]
    ELSE [v |-> storageErr, err |-> MkErr("xml syntax")]

\* json.Unmarshal(body, &odataErrorWrapper)
jsonUnmarshal(body, odata) ==
    IF body.json
    THEN [v |-> [Code |-> body.Code, Message |-> body.Message,
                 Lang |-> body.Lang],
          err |-> Nil]
    ELSE [v |-> odata, err |-> MkErr("json syntax")]


\* serviceErrFromXML that starts from a fresh error record
serviceErrFromXMLFresh(body, storageErr) ==
    LET u == xmlUnmarshal(body, MkErr("AzureStorageServiceError")) IN
    IF u.err # Nil
    THEN [storageErr |-> [storageErr EXCEPT !.Message =
                            <<UnmarshalMessage, u.err.type, body.raw>>],
          err |-> u.err, decoder |-> "xml"]
    ELSE [storageErr |-> u.v, err |-> Nil, decoder |-> "xml"]

\* serviceErrFromXML: the storageErr it leaves and the error it returns
serviceErrFromXML(body, storageErr) ==
    LET u == xmlUnmarshal(body, storageErr) IN
    IF u.err # Nil
    THEN [storageErr |-> [storageErr EXCEPT !.Message =
                            <<UnmarshalMessage, u.err.type, body.raw>>],
          err |-> u.err, decoder |-> "xml"]
    ELSE [storageErr |-> u.v, err |-> Nil, decoder |-> "xml"]


\* serviceErrFromJSON that drops the body text from the fallback message
serviceErrFromJSONNoBody(body, storageErr) ==
    LET u == jsonUnmarshal(body, NoOData) IN
    IF u.err # Nil
    THEN [storageErr |-> [storageErr EXCEPT !.Message =
                            <<UnmarshalMessage, u.err.type>>],
          err |-> u.err, decoder |-> "json"]
    ELSE [storageErr |-> [storageErr EXCEPT !.Code = u.v.Code,
                                            !.Message = <<u.v.Message>>,
                                            !.Lang = u.v.Lang],
          err |-> Nil, decoder |-> "json"]

\* serviceErrFromJSON: the storageErr it leaves and the error it returns
serviceErrFromJSON(body, storageErr) ==
    LET u == jsonUnmarshal(body, NoOData) IN
    IF u.err # Nil
    THEN [storageErr |-> [storageErr EXCEPT !.Message =
                            <<UnmarshalMessage, u.err.type, body.raw>>],
          err |-> u.err, decoder |-> "json"]
    ELSE [storageErr |-> [storageErr EXCEPT !.Code = u.v.Code,
                                            !.Message = <<u.v.Message>>,
                                            !.Lang = u.v.Lang],
          err |-> Nil, decoder |-> "json"]


\* DecodeByContentType that sends application/json to the XML path
DecodeByContentTypeNotJSON(r, respBody, storageErr) ==
    IF r.Header.ContentType # "application/json"
    THEN serviceErrFromXML(respBody, storageErr)
    ELSE serviceErrFromJSON(respBody, storageErr)

\* line 660: the decoder exec selects for a non-empty failure body
DecodeByContentType(r, respBody, storageErr) ==
    IF r.Header.ContentType = "application/xml"
    THEN serviceErrFromXML(respBody, storageErr)
    ELSE serviceErrFromJSON(respBody, storageErr)

\* lines 641-684 of exec, for the response r Send returned without error:
\* the body state it leaves, the value it returns, the decoders it ran
execClassify(r, c, fails) ==
    IF InFailureRange(r.StatusCode)
    THEN LET rd == readAndCloseBody(r, c, fails)
             dbg == getDebugHeaders(r.Header)
             storageErr == [MkErr("AzureStorageServiceError") EXCEPT
                               !.StatusCode = r.StatusCode,
                               !.RequestID = dbg.requestID,
                               !.Date = dbg.date,
                               !.APIVersion = dbg.version]
             dec == DecodeByContentType(r, rd.out, storageErr)
         IN  IF rd.err # Nil
             THEN [body |-> rd.body, ret |-> ReturnNil(rd.err),
                   decoders |-> <<>>]
             ELSE IF rd.out.raw = ""
             THEN [body |-> rd.body,
                   ret |-> ReturnResponse(r.StatusCode, r.Header, "restored",
                              NoOData,
                              serviceErrFromStatusCode(r.StatusCode, r.Status,
                                  dbg.requestID, dbg.date, dbg.version)),
                   decoders |-> <<>>]
             ELSE [body |-> rd.body,
                   ret |-> ReturnResponse(r.StatusCode, r.Header, "restored",
                              NoOData, dec.storageErr),
                   decoders |-> <<dec.decoder>>]
    ELSE [body |-> r,
          ret |-> ReturnResponse(r.StatusCode, r.Header, "passthrough",
                     NoOData, Nil),
          decoders |-> <<>>]

\* ------------------------------------------------------------ the calls
Kinds == {"exec", "execInternalJSON", "execBatchOperationJSON"}

\* a caller invokes exec, execInternalJSON or execBatchOperationJSON
Call(p) ==
    /\ pc[p] = "idle"
    /\ \E k \in Kinds : kind' = [kind EXCEPT ![p] = k]
    /\ pc' = [pc EXCEPT ![p] = "auth"]
    /\ UNCHANGED <<ds, attempts, tmp, bodies, resp, err, doCalls, sendCalls,
                   waits, cancelled, decoders, result>>
    /\ UNCHANGED <<parser, sasVars, pureVars>>

\* lines 613-616 and 687-690: addAuthorizationHeader succeeded
AddAuthOk(p) ==
    /\ pc[p] = "auth"
    /\ pc' = [pc EXCEPT ![p] = "newreq"]
    /\ UNCHANGED <<ds, kind, attempts, tmp, bodies, resp, err, doCalls,
                   sendCalls, waits, cancelled, decoders, result>>
    /\ UNCHANGED <<parser, sasVars, pureVars>>

\* lines 613-616 and 687-690: addAuthorizationHeader failed, return nil, err
AddAuthFails(p) ==
    /\ pc[p] = "auth"
    /\ result' = [result EXCEPT ![p] = ReturnNil(MkErr("authorization"))]
    /\ pc' = [pc EXCEPT ![p] = "done"]
    /\ UNCHANGED <<ds, kind, attempts, tmp, bodies, resp, err, doCalls,
                   sendCalls, waits, cancelled, decoders>>
    /\ UNCHANGED <<parser, sasVars, pureVars>>

\* lines 618-636 and 692-697: http.NewRequest succeeded, Send is called
NewRequestOk(p) ==
    /\ pc[p] = "newreq"
    /\ sendCalls' = [sendCalls EXCEPT ![p] = @ + 1]
    /\ pc' = [pc EXCEPT ![p] = "send"]
    /\ UNCHANGED <<ds, kind, attempts, tmp, bodies, resp, err, doCalls,
                   waits, cancelled, decoders, result>>
    /\ UNCHANGED <<parser, sasVars, pureVars>>

\* http.NewRequest failed.  exec returns the error (lines 619-621);
\* execInternalJSONCommon ignores it and dereferences the nil request
\* (lines 692-694), a run-time panic.
NewRequestFails(p) ==
    /\ pc[p] = "newreq"
    /\ IF kind[p] = "exec"
       THEN /\ result' = [result EXCEPT ![p] = ReturnNil(MkErr("request"))]
            /\ pc' = [pc EXCEPT ![p] = "done"]
       ELSE /\ pc' = [pc EXCEPT ![p] = "panic"]
            /\ UNCHANGED result
    /\ UNCHANGED <<ds, kind, attempts, tmp, bodies, resp, err, doCalls,
                   sendCalls, waits, cancelled, decoders>>
    /\ UNCHANGED <<parser, sasVars, pureVars>>

\* exec that issues the request again after a decoded service error
execRetriesServiceError(p) ==
    /\ pc[p] = "sent"
    /\ kind[p] = "exec"
    /\ IF err[p] # Nil
       THEN /\ result' = [result EXCEPT ![p] = ReturnNil(err[p])]
            /\ pc' = [pc EXCEPT ![p] = "done"]
            /\ UNCHANGED <<bodies, decoders>>
       ELSE IF resp[p] = 0
       THEN \* resp.StatusCode of a nil response
            /\ pc' = [pc EXCEPT ![p] = "panic"]
            /\ UNCHANGED <<bodies, decoders, result>>
       ELSE \E c \in BodyContents, fails \in BOOLEAN :
              LET o == execClassify(bodies[p][resp[p]], c, fails) IN
              /\ bodies' = [bodies EXCEPT ![p][resp[p]] = o.body]
              /\ result' = [result EXCEPT ![p] = o.ret]
              /\ decoders' = [decoders EXCEPT ![p] = o.decoders]
              /\ pc' = [pc EXCEPT ![p] =
                          IF o.ret.err # Nil /\ ~o.ret.isNil THEN "newreq"
                          ELSE "done"]
    /\ UNCHANGED <<ds, kind, attempts, tmp, resp, err, doCalls, sendCalls,
                   waits, cancelled>>
    /\ UNCHANGED <<parser, sasVars, pureVars>>

\* lines 636-684: exec after Send returned
exec(p) ==
    /\ pc[p] = "sent"
    /\ kind[p] = "exec"
    /\ IF err[p] # Nil
       THEN /\ result' = [result EXCEPT ![p] = ReturnNil(err[p])]
            /\ pc' = [pc EXCEPT ![p] = "done"]
            /\ UNCHANGED <<bodies, decoders>>
       ELSE IF resp[p] = 0
       THEN \* resp.StatusCode of a nil response
            /\ pc' = [pc EXCEPT ![p] = "panic"]
            /\ UNCHANGED <<bodies, decoders, result>>
       ELSE \E c \in BodyContents, fails \in BOOLEAN :
              LET o == execClassify(bodies[p][resp[p]], c, fails) IN
              /\ bodies' = [bodies EXCEPT ![p][resp[p]] = o.body]
              /\ result' = [result EXCEPT ![p] = o.ret]
              /\ decoders' = [decoders EXCEPT ![p] = o.decoders]
              /\ pc' = [pc EXCEPT ![p] = "done"]
    /\ UNCHANGED <<ds, kind, attempts, tmp, resp, err, doCalls, sendCalls,
                   waits, cancelled>>
    /\ UNCHANGED <<parser, sasVars, pureVars>>

\* lines 702-725 of execInternalJSONCommon, for the response r Send
\* returned without error: the body state it leaves, respToRet and err
execInternalJSONCommon(r, c, fails) ==
    LET respToRet == ReturnResponse(r.StatusCode, r.Header, "passthrough",
                                    NoOData, Nil)
    IN
    IF InFailureRange(r.StatusCode)
    THEN LET rd == readAndCloseBody(r, c, fails)
             dbg == getDebugHeaders(r.Header)
             u == jsonUnmarshal(rd.out, NoOData)
         IN  IF rd.err # Nil
             THEN [body |-> rd.body, isNil |-> TRUE, respToRet |-> NoResult,
                   err |-> rd.err, decoders |-> <<>>]
             ELSE IF rd.out.raw = ""
             THEN [body |-> rd.body, isNil |-> FALSE, respToRet |-> respToRet,
                   err |-> serviceErrFromStatusCode(r.StatusCode, r.Status,
                              dbg.requestID, dbg.date, dbg.version),
                   decoders |-> <<>>]
             ELSE [body |-> rd.body, isNil |-> FALSE,
                   respToRet |-> [respToRet EXCEPT !.odata = u.v],
                   err |-> u.err, decoders |-> <<"json">>]
    ELSE [body |-> r, isNil |-> FALSE, respToRet |-> respToRet, err |-> Nil,
          decoders |-> <<>>]

\* lines 728-731: execInternalJSON returns respToRet, err
execInternalJSONReturn(o) ==
    IF o.isNil THEN ReturnNil(o.err) ELSE [o.respToRet EXCEPT !.err = o.err]

\* mime.ParseMediaType: whether the value parses, and its boundary parameter
ParseMediaType(v) ==
    CASE v = MultipartType -> [ok |-> TRUE, boundary |-> "batchresponse"]
      [] v = ChangesetType -> [ok |-> TRUE, boundary |-> "changesetresponse"]
      [] v \in {"", BadMediaType} -> [ok |-> FALSE, boundary |-> ""]
      [] OTHER -> [ok |-> TRUE, boundary |-> ""]

\* multipart.NewReader(body, boundary).NextPart(): a part is found when the
\* body is delimited by that boundary
HasPart(delimiter, boundary) == boundary # "" /\ delimiter = boundary

\* genBatchReader, lines 796-814
genBatchReader(batchBoundary, respBody) ==
    LET t == ParseMediaType(respBody.batch.partType) IN
    IF ~HasPart(respBody.batch.outer, batchBoundary)
    THEN [err |-> MkErr("multipart: NextPart"), changesetBoundary |-> "",
          steps |-> <<>>]
    ELSE IF ~t.ok
    THEN [err |-> MkErr("mime"), changesetBoundary |-> "",
          steps |-> <<"part", "AwaitInnerBoundary">>]
    ELSE [err |-> Nil, changesetBoundary |-> t.boundary,
          steps |-> <<"part", "AwaitInnerBoundary">>]


\* genChangesetReader that decodes the body of every embedded response
genChangesetReaderDecodesAll(respToRet, batchPart, changesetBoundary) ==
    LET u == jsonUnmarshal(Content(batchPart.body, NoBatch), respToRet.odata) IN
    IF ~HasPart(batchPart.inner, changesetBoundary)
    THEN [err |-> MkErr("multipart: NextPart"), respToRet |-> respToRet,
          decoders |-> <<>>, steps |-> <<>>]
    ELSE IF ~batchPart.http
    THEN [err |-> MkErr("malformed HTTP response"), respToRet |-> respToRet,
          decoders |-> <<>>, steps |-> <<"part", "AwaitEmbeddedResponse">>]
    ELSE IF u.err # Nil
    THEN [err |-> u.err, respToRet |-> respToRet, decoders |-> <<"json">>,
          steps |-> <<"part", "AwaitEmbeddedResponse">>]
    ELSE [err |-> Nil,
          respToRet |-> [respToRet EXCEPT !.odata = u.v,
                                          !.statusCode = batchPart.status],
          decoders |-> <<"json">>,
          steps |-> <<"part", "AwaitEmbeddedResponse">>]

\* genChangesetReader that keeps the status of the outer response
genChangesetReaderKeepsStatus(respToRet, batchPart, changesetBoundary) ==
    LET u == jsonUnmarshal(Content(batchPart.body, NoBatch), respToRet.odata) IN
    IF ~HasPart(batchPart.inner, changesetBoundary)
    THEN [err |-> MkErr("multipart: NextPart"), respToRet |-> respToRet,
          decoders |-> <<>>, steps |-> <<>>]
    ELSE IF ~batchPart.http
    THEN [err |-> MkErr("malformed HTTP response"), respToRet |-> respToRet,
          decoders |-> <<>>, steps |-> <<"part", "AwaitEmbeddedResponse">>]
    ELSE IF batchPart.status # StatusNoContent
    THEN IF u.err # Nil
         THEN [err |-> u.err, respToRet |-> respToRet, decoders |-> <<"json">>,
               steps |-> <<"part", "AwaitEmbeddedResponse">>]
         ELSE [err |-> Nil, respToRet |-> [respToRet EXCEPT !.odata = u.v],
               decoders |-> <<"json">>,
               steps |-> <<"part", "AwaitEmbeddedResponse">>]
    ELSE [err |-> Nil, respToRet |-> respToRet, decoders |-> <<>>,
          steps |-> <<"part", "AwaitEmbeddedResponse">>]

\* genChangesetReader, lines 771-794: the error it returns and respToRet
genChangesetReader(respToRet, batchPart, changesetBoundary) ==
    LET u == jsonUnmarshal(Content(batchPart.body, NoBatch), respToRet.odata) IN
    IF ~HasPart(batchPart.inner, changesetBoundary)
    THEN [err |-> MkErr("multipart: NextPart"), respToRet |-> respToRet,
          decoders |-> <<>>, steps |-> <<>>]
    ELSE IF ~batchPart.http
    THEN [err |-> MkErr("malformed HTTP response"), respToRet |-> respToRet,
          decoders |-> <<>>, steps |-> <<"part", "AwaitEmbeddedResponse">>]
    ELSE IF batchPart.status # StatusNoContent
    THEN IF u.err # Nil
         THEN [err |-> u.err, respToRet |-> respToRet, decoders |-> <<"json">>,
               steps |-> <<"part", "AwaitEmbeddedResponse">>]
         ELSE [err |-> Nil,
               respToRet |-> [respToRet EXCEPT !.odata = u.v,
                                               !.statusCode = batchPart.status],
               decoders |-> <<"json">>,
               steps |-> <<"part", "AwaitEmbeddedResponse">>]
    ELSE [err |-> Nil, respToRet |-> respToRet, decoders |-> <<>>,
          steps |-> <<"part", "AwaitEmbeddedResponse">>]

\* lines 735-769 of execBatchOperationJSON, for the response r Send
\* returned without error
execBatchOperationJSON(r, c, fails) ==
    LET o == execInternalJSONCommon(r, c, fails)
        rd == readAndCloseBody(o.body, c, fails)
        mt == ParseMediaType(r.Header.ContentType)
        br == genBatchReader(mt.boundary, rd.out)
        cr == genChangesetReader(o.respToRet, rd.out.batch, br.changesetBoundary)
        outer == <<"AwaitOuterBoundary">>
    IN
    IF o.err # Nil
    THEN [body |-> o.body, ret |-> ReturnNil(o.err), decoders |-> o.decoders,
          panic |-> FALSE, parser |-> <<>>]
    ELSE IF rd.err # Nil
    THEN [body |-> rd.body, ret |-> ReturnNil(rd.err), decoders |-> o.decoders,
          panic |-> FALSE, parser |-> <<>>]
    ELSE IF r.Header.ContentType = ""
    THEN \* resp.Header["Content-Type"][0] of an absent header
         [body |-> rd.body, ret |-> NoResult, decoders |-> o.decoders,
          panic |-> TRUE, parser |-> outer]
    ELSE IF ~mt.ok
    THEN [body |-> rd.body, ret |-> ReturnNil(MkErr("mime")),
          decoders |-> o.decoders, panic |-> FALSE, parser |-> outer]
    ELSE IF br.err # Nil
    THEN [body |-> rd.body, ret |-> ReturnNil(br.err), decoders |-> o.decoders,
          panic |-> FALSE, parser |-> outer \o br.steps]
    ELSE IF cr.err # Nil
    THEN [body |-> rd.body, ret |-> ReturnNil(cr.err),
          decoders |-> o.decoders \o cr.decoders, panic |-> FALSE,
          parser |-> outer \o br.steps \o cr.steps]
    ELSE [body |-> rd.body, ret |-> [cr.respToRet EXCEPT !.err = Nil],
          decoders |-> o.decoders \o cr.decoders, panic |-> FALSE,
          parser |-> outer \o br.steps \o cr.steps \o <<"Done">>]

\* lines 697-731: execInternalJSON after Send returned
execInternalJSON(p) ==
    /\ pc[p] = "sent"
    /\ kind[p] = "execInternalJSON"
    /\ IF err[p] # Nil
       THEN /\ result' = [result EXCEPT ![p] = ReturnNil(err[p])]
            /\ pc' = [pc EXCEPT ![p] = "done"]
            /\ UNCHANGED <<bodies, decoders>>
       ELSE IF resp[p] = 0
       THEN \* resp.Body of a nil response
            /\ pc' = [pc EXCEPT ![p] = "panic"]
            /\ UNCHANGED <<bodies, decoders, result>>
       ELSE \E c \in BodyContents, fails \in BOOLEAN :
              LET o == execInternalJSONCommon(bodies[p][resp[p]], c, fails) IN
              /\ bodies' = [bodies EXCEPT ![p][resp[p]] = o.body]
              /\ result' = [result EXCEPT ![p] = execInternalJSONReturn(o)]
              /\ decoders' = [decoders EXCEPT ![p] = o.decoders]
              /\ pc' = [pc EXCEPT ![p] = "done"]
    /\ UNCHANGED <<ds, kind, attempts, tmp, resp, err, doCalls, sendCalls,
                   waits, cancelled>>
    /\ UNCHANGED <<parser, sasVars, pureVars>>

\* lines 697-726 and 733-769: execBatchOperationJSON after Send returned
execBatchOperation(p) ==
    /\ pc[p] = "sent"
    /\ kind[p] = "execBatchOperationJSON"
    /\ IF err[p] # Nil
       THEN /\ result' = [result EXCEPT ![p] = ReturnNil(err[p])]
            /\ pc' = [pc EXCEPT ![p] = "done"]
            /\ UNCHANGED <<bodies, decoders, parser>>
       ELSE IF resp[p] = 0
       THEN \* resp.Body of a nil response
            /\ pc' = [pc EXCEPT ![p] = "panic"]
            /\ UNCHANGED <<bodies, decoders, result, parser>>
       ELSE \E c \in BodyContents, fails \in BOOLEAN :
              LET o == execBatchOperationJSON(bodies[p][resp[p]], c, fails) IN
              /\ bodies' = [bodies EXCEPT ![p][resp[p]] = o.body]
              /\ result' = [result EXCEPT ![p] = o.ret]
              /\ decoders' = [decoders EXCEPT ![p] = o.decoders]
              /\ parser' = [parser EXCEPT ![p] = o.parser]
              /\ pc' = [pc EXCEPT ![p] = IF o.panic THEN "panic" ELSE "done"]
    /\ UNCHANGED <<ds, kind, attempts, tmp, resp, err, doCalls, sendCalls,
                   waits, cancelled>>
    /\ UNCHANGED <<sasVars, pureVars>>

\* ------------------------------------------------- account SAS tokens
\* Go strings are sequences of characters; "" is the empty sequence.
\* The characters of API versions, in byte order.
ByteOrder == <<"-", "0", "1", "2", "3", "4", "5", "6", "7", "8", "9">>

Ord(ch) == CHOOSE i \in 1 .. Len(ByteOrder) : ByteOrder[i] = ch

\* the Go string comparison a < b (bytewise lexicographic)
StrLess(a, b) ==
    \E i \in 1 .. Len(b) :
        /\ \A j \in 1 .. (i - 1) : j <= Len(a) /\ a[j] = b[j]
        /\ \/ i = Len(a) + 1
           \/ i <= Len(a) /\ Ord(a[i]) < Ord(b[i])

\* strings.Join(fields, sep)
RECURSIVE Join(_, _)
Join(fields, sep) ==
    IF Len(fields) = 0 THEN <<>>
    ELSE IF Len(fields) = 1 THEN fields[1]
    ELSE fields[1] \o <<sep>> \o Join(Tail(fields), sep)

\* line 439: the oldest API version account SAS supports
MinSASVersion == <<"2", "0", "1", "5", "-", "0", "4", "-", "0", "5">>

\* API versions a caller passes in options.APIVersion
APIVersions ==
    { <<>>, MinSASVersion,
      <<"2", "0", "1", "5", "-", "0", "4", "-", "0", "4">>,
      <<"2", "0", "1", "4", "-", "0", "2", "-", "1", "4">>,
      <<"2", "0", "1", "6", "-", "0", "5", "-", "3", "1">>,
      <<"2", "0", "1", "5", "-", "0", "4">>,
      <<"2", "0", "1", "5", "-", "0", "4", "-", "0", "5", "-", "1">>,
      <<"1", "0", "0", "0", "0", "-", "0", "1", "-", "0", "1">>,
      <<"3">> }

\* time.Time values with their time.RFC3339 form: the zero value
\* time.Time{}, the zero instant carrying a location (not equal to
\* time.Time{} under ==), and two later instants
ZeroTime == [zero |-> TRUE, rfc3339 |-> <<"0", "0", "0", "1", "-", "0", "1", "-", "0", "1", "T", "0", "0", ":", "0", "0", ":", "0", "0", "Z">>]

Times ==
    { ZeroTime,
      [zero |-> FALSE, rfc3339 |-> <<"0", "0", "0", "1", "-", "0", "1", "-", "0", "1", "T", "0", "0", ":", "0", "0", ":", "0", "0", "Z">>],
      [zero |-> FALSE, rfc3339 |-> <<"2", "0", "2", "6", "-", "1", "1", "-", "0", "4", "T", "1", "0", ":", "3", "0", ":", "0", "0", "Z">>],
      [zero |-> FALSE, rfc3339 |-> <<"2", "0", "2", "7", "-", "0", "1", "-", "1", "5", "T", "2", "3", ":", "5", "9", ":", "5", "9", "+", "0", "2", ":", "0", "0">>] }

SomeTime == [zero |-> FALSE, rfc3339 |-> <<"2", "0", "2", "6", "-", "1", "1", "-", "0", "4", "T", "1", "0", ":", "3", "0", ":", "0", "0", "Z">>]

\* t.Format(time.RFC3339)
FormatRFC3339(t) == t.rfc3339

\* lines 502 and 508: the length kept of a formatted time
DateLen == 10

IPs == { <<>>, <<"1", "0", ".", "0", ".", "0", ".", "1">> }

AllServices == [Blob : BOOLEAN, Queue : BOOLEAN, Table : BOOLEAN, File : BOOLEAN]
AllResourceTypes == [Service : BOOLEAN, Container : BOOLEAN, Object : BOOLEAN]
AllPermissions ==
    [Read : BOOLEAN, Write : BOOLEAN, Delete : BOOLEAN, List : BOOLEAN,
     Add : BOOLEAN, Create : BOOLEAN, Update : BOOLEAN, Process : BOOLEAN]

\* AccountSASTokenOptions
Options(version, services, resourceTypes, permissions, start, expiry, ip, https) ==
    [APIVersion |-> version, Services |-> services,
     ResourceTypes |-> resourceTypes, Permissions |-> permissions,
     Start |-> start, Expiry |-> expiry, IP |-> ip, UseHTTPS |-> https]

\* every combination of the flags, the other options fixed
FlagOptions ==
    { Options(<<>>, sv, rt, pm, ZeroTime, SomeTime, <<>>, TRUE) :
        sv \in AllServices, rt \in AllResourceTypes, pm \in AllPermissions }

\* three flag combinations
NoFlags ==
    [sv |-> [Blob |-> FALSE, Queue |-> FALSE, Table |-> FALSE, File |-> FALSE],
     rt |-> [Service |-> FALSE, Container |-> FALSE, Object |-> FALSE],
     pm |-> [Read |-> FALSE, Write |-> FALSE, Delete |-> FALSE, List |-> FALSE,
             Add |-> FALSE, Create |-> FALSE, Update |-> FALSE,
             Process |-> FALSE]]

AllFlags ==
    [sv |-> [Blob |-> TRUE, Queue |-> TRUE, Table |-> TRUE, File |-> TRUE],
     rt |-> [Service |-> TRUE, Container |-> TRUE, Object |-> TRUE],
     pm |-> [Read |-> TRUE, Write |-> TRUE, Delete |-> TRUE, List |-> TRUE,
             Add |-> TRUE, Create |-> TRUE, Update |-> TRUE, Process |-> TRUE]]

SomeFlags ==
    [sv |-> [Blob |-> TRUE, Queue |-> FALSE, Table |-> TRUE, File |-> FALSE],
     rt |-> [Service |-> FALSE, Container |-> TRUE, Object |-> TRUE],
     pm |-> [Read |-> TRUE, Write |-> FALSE, Delete |-> FALSE, List |-> TRUE,
             Add |-> FALSE, Create |-> TRUE, Update |-> FALSE,
             Process |-> FALSE]]

\* every combination of the other options, for three flag combinations
OtherOptions ==
    { Options(v, f.sv, f.rt, f.pm, st, ex, ip, https) :
        v \in APIVersions, f \in {NoFlags, AllFlags, SomeFlags},
        st \in Times, ex \in Times, ip \in IPs, https \in BOOLEAN }

SASOptions == FlagOptions \cup OtherOptions

\* the Client fields GetAccountSASToken reads
SASClients ==
    { [accountName |-> <<"a", "c", "c", "t">>, accountKey |-> <<"k", "e", "y">>,
       apiVersion |-> v] : v \in {<<"2", "0", "1", "6", "-", "0", "5", "-", "3", "1">>, <<"2", "0", "1", "4", "-", "0", "2", "-", "1", "4">>} }

\* lines 435-437: the API version the call works with
EffectiveVersion(c, o) ==
    IF o.APIVersion = <<>> THEN c.apiVersion ELSE o.APIVersion

\* VersionSupported that also refuses the minimum version
VersionSupportedStrict(v) == StrLess(MinSASVersion, v)

\* line 439: options.APIVersion < "2015-04-05" refuses the version
VersionSupported(v) == ~StrLess(v, MinSASVersion)

\* one "if flag { s += ch }" of lines 443-495
Flag(enabled, ch) == IF enabled THEN <<ch>> ELSE <<>>

\* lines 443-456: the services string
sasServices(o) ==
    Flag(o.Services.Blob, "b") \o Flag(o.Services.Queue, "q")
        \o Flag(o.Services.Table, "t") \o Flag(o.Services.File, "f")

\* lines 458-468: the resources string
sasResources(o) ==
    Flag(o.ResourceTypes.Service, "s") \o Flag(o.ResourceTypes.Container, "c")
        \o Flag(o.ResourceTypes.Object, "o")

\* sasPermissions that appends Add before List
sasPermissionsSwapped(o) ==
    Flag(o.Permissions.Read, "r") \o Flag(o.Permissions.Write, "w")
        \o Flag(o.Permissions.Delete, "d") \o Flag(o.Permissions.Add, "a")
        \o Flag(o.Permissions.List, "l") \o Flag(o.Permissions.Create, "c")
        \o Flag(o.Permissions.Update, "u") \o Flag(o.Permissions.Process, "p")

\* lines 470-495: the permissions string
sasPermissions(o) ==
    Flag(o.Permissions.Read, "r") \o Flag(o.Permissions.Write, "w")
        \o Flag(o.Permissions.Delete, "d") \o Flag(o.Permissions.List, "l")
        \o Flag(o.Permissions.Add, "a") \o Flag(o.Permissions.Create, "c")
        \o Flag(o.Permissions.Update, "u") \o Flag(o.Permissions.Process, "p")

\* lines 497-503: the start date, empty for the zero value of time.Time
sasStart(o) ==
    IF o.Start # ZeroTime
    THEN SubSeq(FormatRFC3339(o.Start), 1, DateLen)
    ELSE <<>>

\* lines 505-508: the expiry date
sasExpiry(o) == SubSeq(FormatRFC3339(o.Expiry), 1, DateLen)

\* lines 510-513
sasProtocol(o) ==
    IF o.UseHTTPS THEN <<"h", "t", "t", "p", "s">>
    ELSE <<"h", "t", "t", "p", "s", ",", "h", "t", "t", "p">>

\* lines 515-526: the string that is signed
sasStringToSign(c, o) ==
    Join(<<c.accountName, sasPermissions(o), sasServices(o), sasResources(o),
           sasStart(o), sasExpiry(o), o.IP, sasProtocol(o),
           EffectiveVersion(c, o), <<>> >>, "\n")

\* Client.computeHmac256: the HMAC of the message under the account key
computeHmac256(c, message) ==
    <<"h", "m", "a", "c", "(">> \o c.accountKey \o <<",">> \o message \o <<")">>

\* AddParam that adds the key whatever the value
AddParamAlways(params, key, value) == params \cup {<<key, value>>}

\* lines 538-543: sasParams.Add(key, value) under "if value != """
AddParam(params, key, value) ==
    IF value # <<>> THEN params \cup {<<key, value>>} ELSE params

\* lines 529-543: the url.Values of the token, as its key-value pairs
sasToken(c, o) ==
    AddParam(
        AddParam({ <<"sv", EffectiveVersion(c, o)>>,
                   <<"ss", sasServices(o)>>,
                   <<"srt", sasResources(o)>>,
                   <<"sp", sasPermissions(o)>>,
                   <<"se", sasExpiry(o)>>,
                   <<"spr", sasProtocol(o)>>,
                   <<"sig", computeHmac256(c, sasStringToSign(c, o))>> },
                 "st", sasStart(o)),
        "sip", o.IP)

\* Client.GetAccountSASToken
GetAccountSASToken ==
    /\ sasPc = "ready"
    /\ sasPc' = "done"
    /\ IF VersionSupported(EffectiveVersion(client, options))
       THEN /\ stringToSign' = sasStringToSign(client, options)
            /\ sasParams' = sasToken(client, options)
            /\ sasErr' = Nil
       ELSE /\ stringToSign' = <<>>
            /\ sasParams' = {}
            /\ sasErr' = MkErr("account SAS does not support API versions prior to 2015-04-05")
    /\ UNCHANGED <<client, options>>
    /\ UNCHANGED <<httpVars, pureVars>>

\* no GetAccountSASToken call is made
SASIdle ==
    /\ client = [accountName |-> <<>>, accountKey |-> <<>>, apiVersion |-> <<>>]
    /\ options = Options(<<>>, NoFlags.sv, NoFlags.rt, NoFlags.pm, ZeroTime,
                         ZeroTime, <<>>, FALSE)
    /\ sasPc = "idle"
    /\ stringToSign = <<>>
    /\ sasParams = {}
    /\ sasErr = Nil

\* --------------------------------------------------------- constructors
\* the characters of the class [0-9a-z]
LowerAlnum ==
    { "0", "1", "2", "3", "4", "5", "6", "7", "8", "9",
      "a", "b", "c", "d", "e", "f", "g", "h", "i", "j", "k", "l", "m",
      "n", "o", "p", "q", "r", "s", "t", "u", "v", "w", "x", "y", "z" }

\* line 75: the repetition {3,24} of validStorageAccount
MinAccountLen == 3
MaxAccountLen == 24

\* IsValidStorageAccount: the whole name matches ^[0-9a-z]{3,24}$
IsValidStorageAccount(account) ==
    /\ Len(account) >= MinAccountLen
    /\ Len(account) <= MaxAccountLen
    /\ \A i \in 1 .. Len(account) : account[i] \in LowerAlnum

StorageEmulatorAccountName == <<"d", "e", "v", "s", "t", "o", "r", "e", "a", "c", "c", "o", "u", "n", "t", "1">>

StorageEmulatorAccountKey ==
    "Eby8vdM02xNOcqFlqUwJPLlmEtlCDXJ1OUzFT50uSRZ6IFsuFq2UVErCz4I6tq/K1SZFPTOtr/KBHBeksoGMGw=="

DefaultBaseURL == "core.windows.net"

DefaultAPIVersion == <<"2", "0", "1", "6", "-", "0", "5", "-", "3", "1">>

defaultUseHTTPS == TRUE

\* account names a caller passes, as sequences of characters
AccountNames ==
    { <<>>,
      <<"a", "b">>,
      <<"a", "b", "c">>,
      <<"a", "1", "b", "2", "c", "3">>,
      <<"a", "b", "c", "d", "e", "f", "g", "h", "i", "j", "k", "l", "m", "n", "o", "p", "q", "r", "s", "t", "u", "v", "w", "x">>,
      <<"a", "b", "c", "d", "e", "f", "g", "h", "i", "j", "k", "l", "m", "n", "o", "p", "q", "r", "s", "t", "u", "v", "w", "x", "y">>,
      <<"A", "b", "c">>,
      <<"a", "b", "-", "c">>,
      <<"a", "b", "c", "\n">>,
      StorageEmulatorAccountName }

\* account keys a caller passes
AccountKeys == { "", "a2V5", "%%%", "\n", StorageEmulatorAccountKey }

BaseURLs == { "", DefaultBaseURL, "core.chinacloudapi.cn" }

\* azure.Environment values, by their StorageEndpointSuffix
Environments ==
    { [StorageEndpointSuffix |-> u] : u \in BaseURLs }

\* a []byte: nil, or the bytes it holds
NilBytes == [nil |-> TRUE, bytes |-> ""]
Bytes(b) == [nil |-> FALSE, bytes |-> b]

\* base64.StdEncoding.DecodeString on the modelled keys; the decoder skips
\* the characters \r and \n
DecodeString(key) ==
    CASE key = "" -> [ok |-> TRUE, bytes |-> Bytes("")]
      [] key = "\n" -> [ok |-> TRUE, bytes |-> Bytes("")]
      [] key = "a2V5" -> [ok |-> TRUE, bytes |-> Bytes("key")]
      [] key = StorageEmulatorAccountKey ->
            [ok |-> TRUE, bytes |-> Bytes("emulator key")]
      [] OTHER -> [ok |-> FALSE, bytes |-> NilBytes]

\* a url.Values: nil, or the pairs it holds
NilValues == [nil |-> TRUE, pairs |-> {}]
Values(pairs) == [nil |-> FALSE, pairs |-> pairs]

\* account SAS tokens a caller passes to NewAccountSASClient
Tokens ==
    { NilValues, Values({}),
      Values({<<"sv", DefaultAPIVersion>>, <<"spr", "https">>,
              <<"sig", "c2ln">>}),
      Values({<<"sv", MinSASVersion>>, <<"spr", "https,http">>,
              <<"sig", "c2ln">>}) }

\* url.Values.Get: the value of the key, "" when it is absent
ValuesGet(v, key, empty) ==
    IF \E kv \in v.pairs : kv[1] = key
    THEN (CHOOSE kv \in v.pairs : kv[1] = key)[2]
    ELSE empty

\* the DefaultSender every constructor installs
NewDefaultSender ==
    [RetryAttempts |-> defaultRetryAttempts,
     ValidStatusCodes |-> defaultValidStatusCodes,
     RetryDuration |-> "5s"]

NilSender == [RetryAttempts |-> 0, ValidStatusCodes |-> {}, RetryDuration |-> "0s"]

\* getDefaultUserAgent
getDefaultUserAgent(c) == <<"Go azure-storage-go api-version/", c.apiVersion>>

\* var c Client: the zero value
ZeroClient ==
    [HTTPClient |-> "nil", Sender |-> NilSender, accountName |-> <<>>,
     accountKey |-> NilBytes, useHTTPS |-> FALSE, UseSharedKeyLite |-> FALSE,
     baseURL |-> "", apiVersion |-> <<>>, userAgent |-> <<>>,
     sasClient |-> FALSE, accountSASToken |-> NilValues]

\* an error value of the constructors and of checkRespCode
PureErr(t) == [type |-> t, allowed |-> <<>>, got |-> 0]
NoErr == PureErr("nil")

\* NewClient that tests the base URL before the account key
NewClientURLFirst(accountName, accountKey, serviceBaseURL, apiVersion, useHTTPS) ==
    LET d == DecodeString(accountKey)
        c == [ZeroClient EXCEPT
                !.HTTPClient = "http.DefaultClient", !.accountName = accountName,
                !.accountKey = d.bytes, !.useHTTPS = useHTTPS,
                !.baseURL = serviceBaseURL, !.apiVersion = apiVersion,
                !.Sender = NewDefaultSender]
    IN
    IF ~IsValidStorageAccount(accountName)
    THEN [client |-> ZeroClient, err |-> PureErr("account name is not valid")]
    ELSE IF serviceBaseURL = ""
    THEN [client |-> ZeroClient,
          err |-> PureErr("base storage service url required")]
    ELSE IF accountKey = ""
    THEN [client |-> ZeroClient, err |-> PureErr("account key required")]
    ELSE IF ~d.ok
    THEN [client |-> ZeroClient,
          err |-> PureErr("malformed storage account key")]
    ELSE [client |-> [c EXCEPT !.userAgent = getDefaultUserAgent(c)],
          err |-> NoErr]

\* NewClient, lines 241-273
NewClient(accountName, accountKey, serviceBaseURL, apiVersion, useHTTPS) ==
    LET d == DecodeString(accountKey)
        c == [ZeroClient EXCEPT
                !.HTTPClient = "http.DefaultClient", !.accountName = accountName,
                !.accountKey = d.bytes, !.useHTTPS = useHTTPS,
                !.baseURL = serviceBaseURL, !.apiVersion = apiVersion,
                !.Sender = NewDefaultSender]
    IN
    IF ~IsValidStorageAccount(accountName)
    THEN [client |-> ZeroClient, err |-> PureErr("account name is not valid")]
    ELSE IF accountKey = ""
    THEN [client |-> ZeroClient, err |-> PureErr("account key required")]
    ELSE IF serviceBaseURL = ""
    THEN [client |-> ZeroClient,
          err |-> PureErr("base storage service url required")]
    ELSE IF ~d.ok
    THEN [client |-> ZeroClient,
          err |-> PureErr("malformed storage account key")]
    ELSE [client |-> [c EXCEPT !.userAgent = getDefaultUserAgent(c)],
          err |-> NoErr]

\* NewEmulatorClient, lines 235-237
NewEmulatorClient ==
    NewClient(StorageEmulatorAccountName, StorageEmulatorAccountKey,
              DefaultBaseURL, DefaultAPIVersion, FALSE)

\* NewBasicClient, lines 216-221
NewBasicClient(accountName, accountKey) ==
    IF accountName = StorageEmulatorAccountName THEN NewEmulatorClient
    ELSE NewClient(accountName, accountKey, DefaultBaseURL, DefaultAPIVersion,
                   defaultUseHTTPS)

\* NewBasicClientOnSovereignCloud, lines 225-230
NewBasicClientOnSovereignCloud(accountName, accountKey, env) ==
    IF accountName = StorageEmulatorAccountName THEN NewEmulatorClient
    ELSE NewClient(accountName, accountKey, env.StorageEndpointSuffix,
                   DefaultAPIVersion, defaultUseHTTPS)

\* newSASClient, lines 295-308
newSASClient ==
    LET c == [ZeroClient EXCEPT
                !.HTTPClient = "http.DefaultClient",
                !.apiVersion = DefaultAPIVersion, !.sasClient = TRUE,
                !.Sender = NewDefaultSender]
    IN  [c EXCEPT !.userAgent = getDefaultUserAgent(c)]

\* NewAccountSASClient, lines 283-293; it has no error result
NewAccountSASClient(account, token, env) ==
    [client |-> [newSASClient EXCEPT
                    !.accountSASToken = token, !.accountName = account,
                    !.baseURL = env.StorageEndpointSuffix,
                    !.apiVersion = ValuesGet(token, "sv", <<>>),
                    !.useHTTPS = (ValuesGet(token, "spr", "") = "https")],
     err |-> NoErr]

\* lines 310-312
isServiceSASClient(c) == c.sasClient /\ c.accountSASToken.nil

\* lines 314-316
isAccountSASClient(c) == c.sasClient /\ ~c.accountSASToken.nil

\* ---------------------------------------------------------- checkRespCode
\* longest allowed list that is tried
MaxAllowed == 2

RespCodes == {200, 201, 404}

AllowedCodes == {200, 201, 202}

\* the slices a caller passes as allowed, nil and non-nil empty alike
AllowedLists ==
    UNION { [1 .. n -> AllowedCodes] : n \in 0 .. MaxAllowed }

\* UnexpectedStatusCodeError{allowed, got}
UnexpectedStatusCodeError(allowed, got) ==
    [type |-> "UnexpectedStatusCodeError", allowed |-> allowed, got |-> got]

\* UnexpectedStatusCodeError.Got
Got(e) == e.got

\* lines 864-868: the loop over allowed, from index i on
RECURSIVE rangeAllowed(_, _, _)
rangeAllowed(respCode, allowed, i) ==
    IF i > Len(allowed) THEN FALSE
    ELSE IF respCode = allowed[i] THEN TRUE
    ELSE rangeAllowed(respCode, allowed, i + 1)

\* checkRespCode that compares the first allowed code only
checkRespCodeFirstOnly(respCode, allowed) ==
    IF Len(allowed) > 0 /\ respCode = allowed[1] THEN NoErr
    ELSE UnexpectedStatusCodeError(allowed, respCode)

\* checkRespCode, lines 863-870
checkRespCode(respCode, allowed) ==
    IF rangeAllowed(respCode, allowed, 1) THEN NoErr
    ELSE UnexpectedStatusCodeError(allowed, respCode)

\* ------------------------------------------- calls of the pure functions
\* the call returns r.client and r.err
Returns(r) == returned' = [done |-> TRUE, client |-> r.client, err |-> r.err]

NewClientCall ==
    /\ invocation.fn = "NewClient" /\ ~returned.done
    /\ Returns(NewClient(invocation.accountName, invocation.accountKey,
                         invocation.serviceBaseURL, invocation.apiVersion,
                         invocation.useHTTPS))
    /\ UNCHANGED <<invocation, httpVars, sasVars>>

NewBasicClientCall ==
    /\ invocation.fn = "NewBasicClient" /\ ~returned.done
    /\ Returns(NewBasicClient(invocation.accountName, invocation.accountKey))
    /\ UNCHANGED <<invocation, httpVars, sasVars>>

NewBasicClientOnSovereignCloudCall ==
    /\ invocation.fn = "NewBasicClientOnSovereignCloud" /\ ~returned.done
    /\ Returns(NewBasicClientOnSovereignCloud(invocation.accountName,
                   invocation.accountKey, invocation.env))
    /\ UNCHANGED <<invocation, httpVars, sasVars>>

NewEmulatorClientCall ==
    /\ invocation.fn = "NewEmulatorClient" /\ ~returned.done
    /\ Returns(NewEmulatorClient)
    /\ UNCHANGED <<invocation, httpVars, sasVars>>

NewAccountSASClientCall ==
    /\ invocation.fn = "NewAccountSASClient" /\ ~returned.done
    /\ Returns(NewAccountSASClient(invocation.account, invocation.token,
                                   invocation.env))
    /\ UNCHANGED <<invocation, httpVars, sasVars>>

checkRespCodeCall ==
    /\ invocation.fn = "checkRespCode" /\ ~returned.done
    /\ Returns([client |-> ZeroClient,
                err |-> checkRespCode(invocation.respCode, invocation.allowed)])
    /\ UNCHANGED <<invocation, httpVars, sasVars>>

\* no constructor or checkRespCode call is made
PureIdle ==
    /\ invocation = [fn |-> "none"]
    /\ returned = [done |-> FALSE, client |-> ZeroClient, err |-> NoErr]

\* ----------------------------------------------------- specifications
InitCommon ==
    /\ ds \in { [RetryAttempts |-> n, attempts |-> 0] : n \in RetryAttemptsSet }
    /\ attempts = [p \in Procs |-> 0]
    /\ tmp = [p \in Procs |-> 0]
    /\ bodies = [p \in Procs |-> <<>>]
    /\ resp = [p \in Procs |-> 0]
    /\ err = [p \in Procs |-> Nil]
    /\ doCalls = [p \in Procs |-> 0]
    /\ waits = [p \in Procs |-> <<>>]
    /\ cancelled = [p \in Procs |-> FALSE]
    /\ decoders = [p \in Procs |-> <<>>]
    /\ result = [p \in Procs |-> NoResult]
    /\ parser = [p \in Procs |-> <<>>]
    /\ SASIdle
    /\ PureIdle

\* two goroutines call Send on the one DefaultSender of a Client
InitConcurrent ==
    /\ InitCommon
    /\ pc = [p \in Procs |-> "send"]
    /\ kind = [p \in Procs |-> "Send"]
    /\ sendCalls = [p \in Procs |-> 1]

NextConcurrent == \E p \in Procs : Send(p, PlainResponses)

SpecConcurrent == InitConcurrent /\ [][NextConcurrent]_vars

\* one goroutine performs one call
Init ==
    /\ InitCommon
    /\ pc = [p \in Procs |-> "idle"]
    /\ kind = [p \in Procs |-> "none"]
    /\ sendCalls = [p \in Procs |-> 0]

Next ==
    \/ Call(Main)
    \/ AddAuthOk(Main)
    \/ AddAuthFails(Main)
    \/ NewRequestOk(Main)
    \/ NewRequestFails(Main)
    \/ Send(Main, Responses)
    \/ BackoffCancelled(Main)
    \/ Cancel(Main)
    \/ exec(Main)
    \/ execInternalJSON(Main)
    \/ execBatchOperation(Main)

Spec == Init /\ [][Next]_vars

\* the HTTP side of a client on which no call is made
HTTPIdle ==
    /\ ds = [RetryAttempts |-> defaultRetryAttempts, attempts |-> 0]
    /\ pc = [p \in Procs |-> "idle"]
    /\ kind = [p \in Procs |-> "none"]
    /\ attempts = [p \in Procs |-> 0]
    /\ tmp = [p \in Procs |-> 0]
    /\ bodies = [p \in Procs |-> <<>>]
    /\ resp = [p \in Procs |-> 0]
    /\ err = [p \in Procs |-> Nil]
    /\ doCalls = [p \in Procs |-> 0]
    /\ sendCalls = [p \in Procs |-> 0]
    /\ waits = [p \in Procs |-> <<>>]
    /\ cancelled = [p \in Procs |-> FALSE]
    /\ decoders = [p \in Procs |-> <<>>]
    /\ result = [p \in Procs |-> NoResult]
    /\ parser = [p \in Procs |-> <<>>]

\* GetAccountSASToken is called once on a client whose HTTP side is idle
InitSAS ==
    /\ HTTPIdle
    /\ PureIdle
    /\ client \in SASClients
    /\ options \in SASOptions
    /\ sasPc = "ready"
    /\ stringToSign = <<>>
    /\ sasParams = {}
    /\ sasErr = Nil

NextSAS == GetAccountSASToken

SpecSAS == InitSAS /\ [][NextSAS]_vars

\* one call of a constructor or of checkRespCode, for each argument list
InitPure ==
    /\ HTTPIdle
    /\ SASIdle
    /\ returned = [done |-> FALSE, client |-> ZeroClient, err |-> NoErr]
    /\ \/ \E n \in AccountNames, k \in AccountKeys, u \in BaseURLs,
             v \in {DefaultAPIVersion, MinSASVersion}, h \in BOOLEAN :
             invocation = [fn |-> "NewClient", accountName |-> n,
                           accountKey |-> k, serviceBaseURL |-> u,
                           apiVersion |-> v, useHTTPS |-> h]
       \/ \E n \in AccountNames, k \in AccountKeys :
             invocation = [fn |-> "NewBasicClient", accountName |-> n,
                           accountKey |-> k]
       \/ \E n \in AccountNames, k \in AccountKeys, e \in Environments :
             invocation = [fn |-> "NewBasicClientOnSovereignCloud",
                           accountName |-> n, accountKey |-> k, env |-> e]
       \/ invocation = [fn |-> "NewEmulatorClient"]
       \/ \E n \in AccountNames, t \in Tokens, e \in Environments :
             invocation = [fn |-> "NewAccountSASClient", account |-> n,
                           token |-> t, env |-> e]
       \/ \E c \in RespCodes, a \in AllowedLists :
             invocation = [fn |-> "checkRespCode", respCode |-> c,
                           allowed |-> a]

NextPure ==
    \/ NewClientCall
    \/ NewBasicClientCall
    \/ NewBasicClientOnSovereignCloudCall
    \/ NewEmulatorClientCall
    \/ NewAccountSASClientCall
    \/ checkRespCodeCall

SpecPure == InitPure /\ [][NextPure]_vars

\* ---------------------------------------------------------------- claims
\* the statuses of the responses goroutine p received are all transient
AllTransient(p) ==
    \A i \in 1 .. Len(bodies[p]) :
        bodies[p][i].StatusCode \in defaultValidStatusCodes

\* Send has returned to its caller
SendReturned(p) == pc[p] \in {"sent", "done", "panic"}

\* the call of goroutine p received a response from the Sender
GotResponse(p) == pc[p] = "done" /\ err[p] = Nil /\ resp[p] # 0

\* the response Send returned to goroutine p
TheResponse(p) == bodies[p][resp[p]]

\* C1: with RetryAttempts = N >= 1, Send makes at most N attempts when every
\* response is transient, and exactly one attempt when the first response
\* is not transient.
C1_AttemptBudget ==
    \A p \in Procs :
        ds.RetryAttempts >= 1 =>
            /\ AllTransient(p) => doCalls[p] <= ds.RetryAttempts
            /\ (Len(bodies[p]) >= 1
                  /\ bodies[p][1].StatusCode \notin defaultValidStatusCodes)
                  => doCalls[p] = 1

C1_Witness ==
    /\ pc[Main] = "sent"
    /\ ds.RetryAttempts = 2
    /\ doCalls[Main] = 2
    /\ Len(bodies[Main]) = 2
    /\ AllTransient(Main)

\* C2: when HTTPClient.Do fails, Send returns that error at once: the
\* failed attempt is the last one, no backoff wait follows it, and the
\* caller gets the error with a nil response.
C2_TransportErrorReturnsAtOnce ==
    \A p \in Procs :
        err[p].type \in {"transport", "canceled"} =>
            /\ SendReturned(p)
            /\ resp[p] = 0
            /\ doCalls[p] = Len(bodies[p]) + 1
            /\ Len(waits[p]) = Len(bodies[p])
            /\ pc[p] = "done" => result[p] = ReturnNil(err[p])

C2_Witness ==
    /\ pc[Main] = "sent"
    /\ err[Main].type = "transport"
    /\ ds.RetryAttempts = 2
    /\ doCalls[Main] = 1

\* C3: when all RetryAttempts attempts got a transient response, Send
\* returns the response of the last attempt and a nil error.
C3_ExhaustionReturnsLastResponse ==
    \A p \in Procs :
        (/\ SendReturned(p)
         /\ ds.RetryAttempts >= 1
         /\ Len(bodies[p]) = ds.RetryAttempts
         /\ AllTransient(p))
            => resp[p] = Len(bodies[p]) /\ err[p] = Nil

C3_Witness ==
    /\ pc[Main] = "sent"
    /\ ds.RetryAttempts = 2
    /\ Len(bodies[Main]) = 2
    /\ AllTransient(Main)
    /\ resp[Main] = 2

\* C4: a backoff wait happens only between two attempts: when Send has
\* returned, every wait was followed by another attempt, so there are
\* fewer waits than attempts.
C4_BackoffOnlyBetweenAttempts ==
    \A p \in Procs :
        SendReturned(p) => Len(waits[p]) = 0 \/ Len(waits[p]) < doCalls[p]

\* C5: once req.Cancel has ended a backoff wait, Send makes no further
\* attempt: the attempts never exceed the one the wait followed.
C5_NoAttemptAfterCancelledWait ==
    \A p \in Procs :
        \A i \in 1 .. Len(waits[p]) :
            waits[p][i].aborted => doCalls[p] <= waits[p][i].attempt + 1

\* C6: no Send call writes a field of the shared DefaultSender.
C6_SenderNeverWritten == [][ds' = ds]_vars

\* C7: a call that received a response from the Sender has read and closed
\* its body exactly once when it returns.
C7_BodyClosedExactlyOnce ==
    \A p \in Procs :
        GotResponse(p) =>
            TheResponse(p).reads = 1 /\ TheResponse(p).closes = 1

\* C8: exec classifies by status alone: below 400 it returns a nil error
\* and the untouched body, from 400 to 505 a non-nil error after consuming
\* the body.
C8_ExecClassifiesByStatus ==
    \A p \in Procs :
        (GotResponse(p) /\ kind[p] = "exec") =>
            /\ TheResponse(p).StatusCode < 400 =>
                  /\ result[p].err = Nil
                  /\ ~result[p].isNil
                  /\ result[p].statusCode = TheResponse(p).StatusCode
                  /\ result[p].body = "passthrough"
                  /\ TheResponse(p).reads = 0
                  /\ TheResponse(p).closes = 0
            /\ (TheResponse(p).StatusCode >= 400
                  /\ TheResponse(p).StatusCode <= 505) =>
                  /\ result[p].err # Nil
                  /\ TheResponse(p).reads >= 1
                  /\ TheResponse(p).closes >= 1

C8_Witness ==
    /\ GotResponse(Main)
    /\ kind[Main] = "exec"
    /\ TheResponse(Main).StatusCode = 400
    /\ result[Main].err.type = "AzureStorageServiceError"
    /\ TheResponse(Main).closes = 1

\* the failure response of goroutine p was read without error
FailureBodyRead(p) ==
    /\ GotResponse(p)
    /\ kind[p] = "exec"
    /\ TheResponse(p).StatusCode >= 400
    /\ TheResponse(p).StatusCode <= 505
    /\ TheResponse(p).reads = 1
    /\ ~TheResponse(p).failed

\* C9: for a failure response with an empty body exec returns a service
\* error with the response's status code, the response's status line as
\* Code and the fixed message, and runs no decoder.
C9_EmptyBodyServiceError ==
    \A p \in Procs :
        (FailureBodyRead(p) /\ TheResponse(p).content.raw = "") =>
            /\ result[p].err.type = "AzureStorageServiceError"
            /\ result[p].err.StatusCode = TheResponse(p).StatusCode
            /\ result[p].err.Code = StatusLine(TheResponse(p).StatusCode)
            /\ result[p].err.Message =
                  <<"no response body was available for error status code">>
            /\ decoders[p] = <<>>

C9_Witness ==
    /\ FailureBodyRead(Main)
    /\ TheResponse(Main).content.raw = ""
    /\ TheResponse(Main).StatusCode = 404
    /\ TheResponse(Main).Header.ContentType = ""
    /\ result[Main].err.Code = "404 Not Found"

\* C10: for a failure response with a non-empty body exec runs exactly one
\* decoder: the XML one when Content-Type is application/xml, the OData
\* JSON one for every other value.
C10_DecoderByContentType ==
    \A p \in Procs :
        (FailureBodyRead(p) /\ TheResponse(p).content.raw # "") =>
            LET ct == TheResponse(p).Header.ContentType
                body == TheResponse(p).content
                e == result[p].err
            IN  /\ decoders[p] = IF ct = "application/xml" THEN <<"xml">>
                                 ELSE <<"json">>
                /\ (ct = "application/xml" /\ body = XMLBody)
                      => e.Code = "ResourceNotFound" /\ e.Message = <<"gone">>
                /\ (ct = "application/xml" /\ body = JSONBody)
                      => e.Message = <<UnmarshalMessage, "xml syntax", body.raw>>
                /\ (ct # "application/xml" /\ body = JSONBody)
                      => e.Code = "EntityAlreadyExists" /\ e.Lang = "en-us"
                /\ (ct # "application/xml" /\ body = XMLBody)
                      => e.Message = <<UnmarshalMessage, "json syntax", body.raw>>

C10_Witness ==
    /\ FailureBodyRead(Main)
    /\ TheResponse(Main).Header.ContentType = "application/json"
    /\ TheResponse(Main).content = JSONBody
    /\ decoders[Main] = <<"json">>
    /\ result[Main].err.Code = "EntityAlreadyExists"

\* the decoder exec selects for the failure response of goroutine p cannot
\* parse its body
Undecodable(p) ==
    /\ FailureBodyRead(p)
    /\ TheResponse(p).content.raw # ""
    /\ IF TheResponse(p).Header.ContentType = "application/xml"
       THEN ~TheResponse(p).content.xml
       ELSE ~TheResponse(p).content.json

FailedCall(p) ==
    /\ GotResponse(p)
    /\ kind[p] \in {"exec", "execInternalJSON"}
    /\ TheResponse(p).StatusCode >= 400
    /\ TheResponse(p).StatusCode <= 505
    /\ TheResponse(p).reads = 1
    /\ ~TheResponse(p).failed

\* C12: every failed call of exec and of execInternalJSON returns an
\* AzureStorageServiceError that carries the status code and the request
\* id, date and API version of the response headers.
C12_UniformServiceError ==
    \A p \in Procs :
        FailedCall(p) =>
            /\ result[p].err.type = "AzureStorageServiceError"
            /\ result[p].err.StatusCode = TheResponse(p).StatusCode
            /\ result[p].err.RequestID = TheResponse(p).Header.RequestID
            /\ result[p].err.Date = TheResponse(p).Header.Date
            /\ result[p].err.APIVersion = TheResponse(p).Header.Version

BatchCall(p) ==
    /\ pc[p] \in {"done", "panic"}
    /\ kind[p] = "execBatchOperationJSON"
    /\ err[p] = Nil
    /\ resp[p] # 0
    /\ TheResponse(p).reads >= 1
    /\ ~TheResponse(p).failed

\* the response is a two-level multipart batch response: its Content-Type
\* declares the boundary that delimits the batch part, the batch part
\* declares the boundary that delimits the changeset part, and that part is
\* a serialized HTTP response
WellFormedBatch(r) ==
    /\ r.Header.ContentType = MultipartType
    /\ r.content.batch.outer = "batchresponse"
    /\ r.content.batch.partType = ChangesetType
    /\ r.content.batch.inner = "changesetresponse"
    /\ r.content.batch.http

\* the status of the outer response is outside [400, 505]
OuterNotFailure(r) == r.StatusCode < 400 \/ r.StatusCode > 505

\* what C14 says of goroutine p
BatchNoContentSucceeds(p) ==
    /\ pc[p] = "done"
    /\ ~result[p].isNil
    /\ result[p].err = Nil
    /\ result[p].odata = [Code |-> "", Message |-> "", Lang |-> ""]
    /\ result[p].statusCode = TheResponse(p).StatusCode

\* C14 as stated: for every well-formed batch response whose embedded
\* response has status 204, execBatchOperationJSON returns success with an
\* empty odata record and the outer status.
C14_Original ==
    \A p \in Procs :
        (BatchCall(p) /\ WellFormedBatch(TheResponse(p))
            /\ TheResponse(p).content.batch.status = 204)
            => BatchNoContentSucceeds(p)

\* C14 (amended): for every well-formed batch response whose outer status
\* is outside [400, 505] and whose embedded response has status 204,
\* execBatchOperationJSON returns success with an empty odata record and
\* the outer status.
C14_BatchNoContent ==
    \A p \in Procs :
        (BatchCall(p) /\ WellFormedBatch(TheResponse(p))
            /\ OuterNotFailure(TheResponse(p))
            /\ TheResponse(p).content.batch.status = 204)
            => BatchNoContentSucceeds(p)

C14_Witness ==
    /\ BatchCall(Main)
    /\ WellFormedBatch(TheResponse(Main))
    /\ TheResponse(Main).StatusCode = 200
    /\ TheResponse(Main).content.batch.status = 204
    /\ result[Main].statusCode = 200
    /\ result[Main].err = Nil

\* what C15 says of goroutine p
BatchInnerErrorDecoded(p) ==
    /\ pc[p] = "done"
    /\ ~result[p].isNil
    /\ result[p].statusCode = TheResponse(p).content.batch.status
    /\ result[p].odata.Code = TheResponse(p).content.batch.body.Code
    /\ result[p].odata.Message = TheResponse(p).content.batch.body.Message

\* C15 as stated: for every well-formed batch response whose embedded
\* response has a status other than 204 and an OData JSON body, the result
\* has the inner status and the code and message of the inner body.
C15_Original ==
    \A p \in Procs :
        (BatchCall(p) /\ WellFormedBatch(TheResponse(p))
            /\ TheResponse(p).content.batch.status # 204
            /\ TheResponse(p).content.batch.body.json)
            => BatchInnerErrorDecoded(p)

\* C15 (amended): for every well-formed batch response whose outer status
\* is outside [400, 505] and whose embedded response has a status other
\* than 204 and an OData JSON body, the result has the inner status and the
\* code and message of the inner body.
C15_BatchInnerError ==
    \A p \in Procs :
        (BatchCall(p) /\ WellFormedBatch(TheResponse(p))
            /\ OuterNotFailure(TheResponse(p))
            /\ TheResponse(p).content.batch.status # 204
            /\ TheResponse(p).content.batch.body.json)
            => BatchInnerErrorDecoded(p)

C15_Witness ==
    /\ BatchCall(Main)
    /\ WellFormedBatch(TheResponse(Main))
    /\ TheResponse(Main).StatusCode = 200
    /\ TheResponse(Main).content.batch.status = 400
    /\ result[Main].statusCode = 400
    /\ result[Main].odata.Code = "EntityAlreadyExists"
    /\ result[Main].odata.Message = "x"

\* the outer Content-Type of the response is missing or does not parse, or
\* the body has no part for the boundary it declares
NoBatchPart(r) ==
    \/ r.Header.ContentType \in {"", BadMediaType}
    \/ r.Header.ContentType = MultipartType
          /\ r.content.batch.outer # "batchresponse"
    \/ r.Header.ContentType \notin {"", BadMediaType, MultipartType}

\* C16: when the outer Content-Type is missing or unparsable, or the body
\* has no part for the declared boundary, execBatchOperationJSON returns a
\* nil result and an error that is not an AzureStorageServiceError; it
\* does not panic.
C16_BatchEnvelopeErrorIsFatal ==
    \A p \in Procs :
        (BatchCall(p) /\ OuterNotFailure(TheResponse(p))
            /\ NoBatchPart(TheResponse(p))) =>
            /\ pc[p] = "done"
            /\ result[p].isNil
            /\ result[p].err # Nil
            /\ result[p].err.type # "AzureStorageServiceError"

\* C17: when the embedded response has a status other than 204 and a body
\* that is not an OData JSON envelope, the batch call still returns a
\* result that carries the inner status.
C17_BatchDecodeFailureNotFatal ==
    \A p \in Procs :
        (BatchCall(p) /\ WellFormedBatch(TheResponse(p))
            /\ OuterNotFailure(TheResponse(p))
            /\ TheResponse(p).content.batch.status # 204
            /\ ~TheResponse(p).content.batch.body.json) =>
            /\ pc[p] = "done"
            /\ ~result[p].isNil
            /\ result[p].statusCode = TheResponse(p).content.batch.status

\* the value a token holds for a key
TokenValue(key) == (CHOOSE kv \in sasParams : kv[1] = key)[2]

TokenKeys == { kv[1] : kv \in sasParams }

SASSucceeded == sasPc = "done" /\ sasErr = Nil

\* occurrences of a character in a string
Count(str, ch) == Cardinality({ i \in 1 .. Len(str) : str[i] = ch })

\* str holds each enabled flag's character once, no other character, in
\* the order of canon; flags pairs each character of canon with its flag
FlagString(str, canon, flags) ==
    /\ \A i \in 1 .. Len(canon) :
        Count(str, canon[i]) = IF flags[i] THEN 1 ELSE 0
    /\ \A i \in 1 .. Len(str) : \E k \in 1 .. Len(canon) : canon[k] = str[i]
    /\ \A i, j \in 1 .. Len(str) :
        i < j => \E k, l \in 1 .. Len(canon) :
                    k < l /\ canon[k] = str[i] /\ canon[l] = str[j]

\* C18: in every token GetAccountSASToken returns, ss, srt and sp hold the
\* character of each enabled flag exactly once, the character of no
\* disabled flag, in the order b,q,t,f / s,c,o / r,w,d,l,a,c,u,p.
C18_FlagStrings ==
    SASSucceeded =>
        /\ FlagString(TokenValue("ss"), <<"b", "q", "t", "f">>,
                      <<options.Services.Blob, options.Services.Queue,
                        options.Services.Table, options.Services.File>>)
        /\ FlagString(TokenValue("srt"), <<"s", "c", "o">>,
                      <<options.ResourceTypes.Service,
                        options.ResourceTypes.Container,
                        options.ResourceTypes.Object>>)
        /\ FlagString(TokenValue("sp"),
                      <<"r", "w", "d", "l", "a", "c", "u", "p">>,
                      <<options.Permissions.Read, options.Permissions.Write,
                        options.Permissions.Delete, options.Permissions.List,
                        options.Permissions.Add, options.Permissions.Create,
                        options.Permissions.Update,
                        options.Permissions.Process>>)

C18_Witness ==
    /\ SASSucceeded
    /\ options.Permissions.List /\ options.Permissions.Add
    /\ ~options.Permissions.Write /\ options.Permissions.Process
    /\ options.Services.Queue /\ ~options.Services.Blob
    /\ options.ResourceTypes.Object /\ ~options.ResourceTypes.Container

\* the API version a call works with: the option, or the client's when the
\* option is empty
CallVersion ==
    IF Len(options.APIVersion) = 0 THEN client.apiVersion
    ELSE options.APIVersion

\* the modelled versions that sort before "2015-04-05"
OlderVersions ==
    { <<"2", "0", "1", "5", "-", "0", "4", "-", "0", "4">>,
      <<"2", "0", "1", "4", "-", "0", "2", "-", "1", "4">>,
      <<"2", "0", "1", "5", "-", "0", "4">>,
      <<"1", "0", "0", "0", "0", "-", "0", "1", "-", "0", "1">> }

\* C19: GetAccountSASToken fails and returns an empty token when the
\* effective API version sorts before "2015-04-05"; otherwise it succeeds
\* and the token's sv is the effective version.
C19_VersionGate ==
    sasPc = "done" =>
        IF CallVersion \in OlderVersions
        THEN sasErr # Nil /\ sasParams = {}
        ELSE sasErr = Nil /\ TokenValue("sv") = CallVersion

C19_Witness ==
    /\ sasPc = "done"
    /\ Len(options.APIVersion) = 0
    /\ client.apiVersion \in OlderVersions
    /\ sasErr # Nil

\* the fields of a joined string, split at the separator
RECURSIVE Fields(_, _)
Fields(str, sep) ==
    IF \A i \in 1 .. Len(str) : str[i] # sep THEN <<str>>
    ELSE LET i == CHOOSE k \in 1 .. Len(str) :
                    str[k] = sep /\ \A j \in 1 .. (k - 1) : str[j] # sep
         IN  <<SubSeq(str, 1, i - 1)>>
                \o Fields(SubSeq(str, i + 1, Len(str)), sep)

\* C20: a returned token has exactly the keys sv, ss, srt, sp, se, spr and
\* sig, each once, plus st exactly when options.Start is not the zero value
\* of time.Time, plus sip exactly when options.IP is not empty; for the
\* zero value the start field of the signed string is empty.
C20_TokenKeys ==
    SASSucceeded =>
        /\ TokenKeys = {"sv", "ss", "srt", "sp", "se", "spr", "sig"}
                \cup (IF options.Start.zero THEN {} ELSE {"st"})
                \cup (IF Len(options.IP) = 0 THEN {} ELSE {"sip"})
        /\ Cardinality(sasParams) = Cardinality(TokenKeys)
        /\ options.Start.zero => Len(Fields(stringToSign, "\n")[5]) = 0

C20_Witness ==
    /\ SASSucceeded
    /\ options.Start.zero
    /\ Len(options.IP) > 0
    /\ "sip" \in TokenKeys /\ "st" \notin TokenKeys

\* C21: GetAccountSASToken returns no token when options.Expiry is the zero
\* value of time.Time; in every returned token se, and st when present, are
\* the first 10 characters of the RFC3339 form.
C21_ExpiryMandatory ==
    SASSucceeded =>
        /\ ~options.Expiry.zero
        /\ TokenValue("se") = SubSeq(options.Expiry.rfc3339, 1, 10)
        /\ "st" \in TokenKeys =>
            TokenValue("st") = SubSeq(options.Start.rfc3339, 1, 10)

\* the positions of a call inside DefaultSender.Send
InSend(p) ==
    pc[p] \in {"send", "prepare", "do", "inflight", "backoff", "store",
               "incr", "incr_store"}

\* C23: a call invokes Sender.Send once when the authorization header and
\* the request were prepared and never otherwise; a call that ends with a
\* decoded service error has invoked Send exactly once, whatever the number
\* of wire attempts Send made.
C23_SendOncePerCall ==
    \A p \in Procs :
        /\ sendCalls[p] <= 1
        /\ pc[p] \in {"idle", "auth", "newreq"} => sendCalls[p] = 0
        /\ (InSend(p) \/ pc[p] = "sent") => sendCalls[p] = 1
        /\ (pc[p] = "done"
                /\ result[p].err.type \in {"authorization", "request"}) =>
            sendCalls[p] = 0 /\ doCalls[p] = 0
        /\ (pc[p] = "done"
                /\ result[p].err.type \notin {"authorization", "request"}) =>
            sendCalls[p] = 1

C23_Witness ==
    \E p \in Procs :
        /\ pc[p] = "done"
        /\ result[p].err.type = "AzureStorageServiceError"
        /\ doCalls[p] >= 2
        /\ sendCalls[p] = 1

\* C27: for every value of RetryAttempts, a Send that returns has made at
\* least one wire attempt unless preparing the request failed, and returns
\* a response or an error; the caller never reads the status of a nil
\* response.
C27_AtLeastOneAttempt ==
    \A p \in Procs :
        /\ (pc[p] = "sent" /\ err[p].type # "prepare") => doCalls[p] >= 1
        /\ pc[p] = "sent" => (resp[p] # 0 \/ err[p] # Nil)
        /\ (pc[p] = "panic" /\ sendCalls[p] = 1) => resp[p] # 0

\* C28: when exec returns, every response Send received and dropped for a
\* later attempt has had its body read and closed, and the last response
\* has either been read and closed or been handed to the caller.
C28_DiscardedBodiesClosed ==
    \A p \in Procs :
        (pc[p] = "done" /\ kind[p] = "exec") =>
            \A i \in 1 .. Len(bodies[p]) :
                \/ bodies[p][i].reads >= 1 /\ bodies[p][i].closes >= 1
                \/ i = resp[p] /\ ~result[p].isNil
                    /\ result[p].body = "passthrough"

\* C29: for a response Send returned without error, exec and
\* execInternalJSON return a non-nil error exactly when the status is in
\* [400, 505]; a status above 505 gives a result with a nil error whose
\* body was neither read nor closed.
C29_ErrorExactlyInFailureRange ==
    \A p \in Procs :
        (pc[p] = "done" /\ kind[p] \in {"exec", "execInternalJSON"}
            /\ resp[p] # 0 /\ err[p] = Nil) =>
            /\ result[p].err # Nil <=>
                (TheResponse(p).StatusCode >= 400
                    /\ TheResponse(p).StatusCode <= 505)
            /\ TheResponse(p).StatusCode > 505 =>
                /\ ~result[p].isNil
                /\ TheResponse(p).reads = 0
                /\ TheResponse(p).closes = 0

\* C30: a call that leaves the preparation of the authorization header or
\* of the request without going on has returned nil and an error, and has
\* not invoked Sender.Send.
C30_PreparationFailureReturnsError ==
    [][\A p \in Procs :
        (pc[p] \in {"auth", "newreq"} /\ pc'[p] \notin {"auth", "newreq", "send"}) =>
            /\ pc'[p] = "done"
            /\ result'[p].returned
            /\ result'[p].isNil
            /\ result'[p].err # Nil
            /\ sendCalls'[p] = 0]_vars

\* the states among the steps of a batch parse, in the order entered
ParserStates(p) ==
    SelectSeq(parser[p], LAMBDA s : s # "part")

\* the number of parts read while the parser was in a state
PartsRead(p, state) ==
    Cardinality({ i \in 1 .. Len(parser[p]) :
        /\ parser[p][i] = "part"
        /\ \E j \in 1 .. (i - 1) :
            /\ parser[p][j] = state
            /\ \A k \in (j + 1) .. (i - 1) : parser[p][k] = "part" })

ParserOrder ==
    <<"AwaitOuterBoundary", "AwaitInnerBoundary", "AwaitEmbeddedResponse",
      "Done">>

\* C26: the batch parser enters its states in the order AwaitOuterBoundary,
\* AwaitInnerBoundary, AwaitEmbeddedResponse, Done without skipping or
\* repeating one; it reads one part at each multipart level, the inner one
\* after the outer one; a parse that stops before Done ends the call with a
\* nil result and an error.
C26_BatchParserOrder ==
    \A p \in Procs :
        LET st == ParserStates(p) IN
        /\ Len(st) <= Len(ParserOrder)
        /\ st = SubSeq(ParserOrder, 1, Len(st))
        /\ PartsRead(p, "AwaitOuterBoundary") <= 1
        /\ PartsRead(p, "AwaitInnerBoundary") <= 1
        /\ PartsRead(p, "AwaitEmbeddedResponse") = 0
        /\ Len(st) >= 2 => PartsRead(p, "AwaitOuterBoundary") = 1
        /\ Len(st) >= 3 => PartsRead(p, "AwaitInnerBoundary") = 1
        /\ (Len(st) >= 1 /\ Len(st) < Len(ParserOrder)) =>
            /\ pc[p] = "done"
            /\ result[p].isNil
            /\ result[p].err # Nil
        /\ Len(st) = Len(ParserOrder) =>
            pc[p] = "done" /\ ~result[p].isNil /\ result[p].err = Nil

\* a constructor returned a Client without error
Constructed ==
    /\ returned.done
    /\ invocation.fn \in {"NewClient", "NewBasicClient",
                          "NewBasicClientOnSovereignCloud",
                          "NewEmulatorClient", "NewAccountSASClient"}
    /\ returned.err.type = "nil"

\* the client signs with its account key
KeyMode(c) ==
    ~c.accountKey.nil /\ c.accountKey.bytes # "" /\ ~c.sasClient

\* the client signs with its account SAS token
AccountSASMode(c) ==
    /\ c.sasClient /\ ~c.accountSASToken.nil
    /\ (c.accountKey.nil \/ c.accountKey.bytes = "")

\* C22: every Client a constructor returns without error either holds a
\* non-empty account key and is not a SAS client, or is an account-SAS
\* client without a key, never both and never neither; it is never both a
\* service-SAS and an account-SAS client.
C22_OneSigningMode ==
    Constructed =>
        /\ KeyMode(returned.client) \/ AccountSASMode(returned.client)
        /\ ~(KeyMode(returned.client) /\ AccountSASMode(returned.client))
        /\ ~(isServiceSASClient(returned.client)
                /\ isAccountSASClient(returned.client))

\* C24: checkRespCode returns nil exactly when the code occurs in allowed;
\* otherwise it returns an UnexpectedStatusCodeError whose Got() is the
\* code and whose allowed list is the one given.
C24_CheckRespCode ==
    (returned.done /\ invocation.fn = "checkRespCode") =>
        IF \E i \in 1 .. Len(invocation.allowed) :
                invocation.allowed[i] = invocation.respCode
        THEN returned.err.type = "nil"
        ELSE /\ returned.err.type = "UnexpectedStatusCodeError"
             /\ Got(returned.err) = invocation.respCode
             /\ returned.err.allowed = invocation.allowed

C24_Witness ==
    /\ returned.done /\ invocation.fn = "checkRespCode"
    /\ Len(invocation.allowed) = 2
    /\ invocation.allowed[1] # invocation.respCode
    /\ invocation.allowed[2] = invocation.respCode
    /\ returned.err.type = "nil"

\* the modelled account names of 3 to 24 lowercase letters and digits
GoodNames ==
    { <<"a", "b", "c">>,
      <<"a", "1", "b", "2", "c", "3">>,
      <<"a", "b", "c", "d", "e", "f", "g", "h", "i", "j", "k", "l", "m", "n", "o", "p", "q", "r", "s", "t", "u", "v", "w", "x">>,
      <<"d", "e", "v", "s", "t", "o", "r", "e", "a", "c", "c", "o", "u", "n", "t", "1">> }

\* the modelled keys the base64 decoder accepts, other than ""
GoodKeys ==
    { "a2V5", "\n",
      "Eby8vdM02xNOcqFlqUwJPLlmEtlCDXJ1OUzFT50uSRZ6IFsuFq2UVErCz4I6tq/K1SZFPTOtr/KBHBeksoGMGw==" }

\* C25: NewClient returns a Client and no error exactly when the name has
\* 3 to 24 lowercase letters and digits, the key is non-empty and decodes
\* as base64, and the base URL is non-empty; otherwise it returns the
\* zero-value Client and the error of the first failing test in the order
\* name, key presence, base URL, key encoding.
C25_NewClientValidation ==
    (returned.done /\ invocation.fn = "NewClient") =>
        IF invocation.accountName \notin GoodNames
        THEN /\ returned.err.type = "account name is not valid"
             /\ returned.client = ZeroClient
        ELSE IF invocation.accountKey = ""
        THEN /\ returned.err.type = "account key required"
             /\ returned.client = ZeroClient
        ELSE IF invocation.serviceBaseURL = ""
        THEN /\ returned.err.type = "base storage service url required"
             /\ returned.client = ZeroClient
        ELSE IF invocation.accountKey \notin GoodKeys
        THEN /\ returned.err.type = "malformed storage account key"
             /\ returned.client = ZeroClient
        ELSE /\ returned.err.type = "nil"
             /\ returned.client.accountName = invocation.accountName
             /\ ~returned.client.accountKey.nil
             /\ returned.client.baseURL = invocation.serviceBaseURL
             /\ returned.client.apiVersion = invocation.apiVersion
             /\ returned.client.useHTTPS = invocation.useHTTPS
             /\ ~returned.client.sasClient
             /\ returned.client.HTTPClient # "nil"
             /\ returned.client.Sender.RetryAttempts >= 1

C25_Witness ==
    /\ returned.done /\ invocation.fn = "NewClient"
    /\ invocation.accountName \in GoodNames
    /\ invocation.accountKey = ""
    /\ invocation.serviceBaseURL = ""
    /\ returned.err.type = "account key required"
    /\ returned.client = ZeroClient

====
